---------------------------- MODULE Spec2Model ----------------------------
(***************************************************************************)
(* Model of the wallet/transaction engine of Digital-Wallet-System:        *)
(* the wallet and transaction tables, the idempotency cache, the request   *)
(* handlers of wallet/views.py with the strategies and commands of         *)
(* wallet/service.py they call, and the expiry task of wallet/tasks.py.    *)
(*                                                                         *)
(* A handler is a sequence of steps; every step is one database statement  *)
(* group whose effect does not depend on what other requests do meanwhile  *)
(* (a read, or the writes of one atomic block up to its commit).  A        *)
(* request that has its response stays in its slot with pc = "done" until  *)
(* the response is returned.  Spec serves one request at a time; ConcSpec  *)
(* lets the steps of two requests interleave.                              *)
(***************************************************************************)
EXTENDS Integers, Sequences, FiniteSets, TLC

(***************************************************************************)
(* Bounds of the model.                                                    *)
(***************************************************************************)
MaxRequests == 2         \* requests and task runs Spec serves in one behaviour
MaxOverlapping == 2      \* requests and task runs ConcSpec serves in one behaviour
MaxClock == 1440         \* last value of the clock, in minutes
TickMinutes == 720       \* the clock advances in steps of 12 hours

Wallets == {1, 2}        \* wallet w belongs to user w, whose phone number is w
NoUser == 3              \* a user name / phone number that is not registered
InitBalance == <<2, 0>>  \* the balances the wallets start with
Amounts == {2}           \* amounts of user commands
DepositAmounts == {-1, 2}  \* recipient.amount values of a webhook body
DepositPhones == {1, NoUser}  \* recipient.phone_number values of a webhook body
Keys == {"k1", "k2"}     \* Idempotency-Key header values
TransactionIds == {"pay_1"}  \* transactionId values of a webhook body
ClientRefs == {"ref_1"}  \* reference values of a transfer request
Procs == {1, 2}          \* request slots
SeqProcs == {1}          \* the slots Spec uses
ConcProcs == Procs       \* the slots ConcSpec uses

(***************************************************************************)
(* Program constants.                                                      *)
(***************************************************************************)
CASH_OUT_EXPIRY_MINUTES == 30
EXPIRY_THRESHOLD_HOURS == 24
CACHE_TIMEOUT == 24 * 60 * 60        \* seconds
LIST_CACHE_TIMEOUT == 60 * 15        \* seconds

\* Transaction.TransactionTypes: the member names models.py defines.
TransactionTypes == {"DEPOSIT", "WITHDRAWAL", "CREDIT", "DEBIT"}

\* The model fields of Transaction.
TransactionFields == {"wallet", "amount", "transaction_type", "funding_source",
                      "reference", "related_wallet", "status", "created_at",
                      "updated_at", "expiry_time"}

\* Transaction.Status
Status == {"PENDING", "ACCEPTED", "REJECTED", "COMPLETED", "FAILED", "EXPIRED"}

NoWallet == 0            \* a null wallet / related_wallet
NoTime == -1             \* a null expiry_time
NoKey == "none"          \* a row that no keyed request wrote
NoTxn == "none"          \* a row that no Paysend payment produced
NoEntry == [code |-> 0, body |-> "none", txid |-> 0, at |-> NoTime]
NoList == [data |-> {}, at |-> NoTime]

VARIABLES
    balance,     \* balance[w]: committed Wallet.balance
    txs,         \* the committed Transaction rows; the id of a row is its index
    idem,        \* idem[k]: cache entry "idempotency_"+k, or NoEntry
    now,         \* timezone.now(), in minutes
    reqs,        \* reqs[p]: the request that slot p is serving
    started,     \* the number of requests served so far
    slots,       \* the request slots in use: SeqProcs or ConcProcs
    initTotal,   \* money in the system before the stored rows were written
    lists        \* lists[u]: cache entry "transaction_list_"+u+"_page_1...", or NoList

\* What no step changes.
fixed == <<slots, initTotal>>

vars == <<balance, txs, idem, now, reqs, started, fixed, lists>>

(***************************************************************************)
(* Helpers.                                                                *)
(***************************************************************************)
Abs(x) == IF x < 0 THEN -x ELSE x

RECURSIVE SumOver(_, _)
SumOver(S, f) ==
    IF S = {} THEN 0
    ELSE LET x == CHOOSE y \in S : TRUE IN f[x] + SumOver(S \ {x}, f)

Ids == 1..Len(txs)

\* The smallest element of a non-empty set of row ids: QuerySet.first() and
\* iteration return rows in id order.
MinId(S) == CHOOSE i \in S : \A j \in S : i <= j

\* A reference suffix that no row carries yet.
FreshCode == Len(txs) + 1

\* uuid.uuid4().hex[:8], the suffix of a new reference: 32 random bits, a
\* value that no row carries or one that a row with this prefix carries.
Uuid8(prefix) ==
    {FreshCode} \cup {txs[i].code : i \in {j \in 1..Len(txs) : txs[j].prefix = prefix}}

Idle == [pc |-> "idle", op |-> "none", key |-> NoKey, txn |-> NoTxn, user |-> 0, wallet |-> NoWallet,
         other |-> NoWallet, amount |-> 0, loaded |-> 0, code |-> 0, act |-> "none",
         stx |-> 0, rtx |-> 0, scan |-> {}, held |-> {}, data |-> {}, trusted |-> TRUE,
         ref |-> "none", notices |-> 0, resp |-> NoEntry]

Resp(c, b, t) == [code |-> c, body |-> b, txid |-> t, at |-> NoTime]

\* Transaction.objects.create(**kwargs): created_at is auto_now_add.
NewTx(w, rel, amt, type, src, prefix, code, st, exp, key) ==
    [wallet |-> w, related |-> rel, amount |-> amt, type |-> type, funding |-> src,
     prefix |-> prefix, code |-> code, status |-> st, created |-> now,
     expiry |-> exp, key |-> key, txn |-> NoTxn]

\* The sum of the amounts that transfers with PENDING legs hold.
Held(t) ==
    LET S == {i \in 1..Len(t) : t[i].type = "DEBIT" /\ t[i].status = "PENDING"}
        RECURSIVE Go(_)
        Go(R) == IF R = {} THEN 0
                 ELSE LET i == CHOOSE j \in R : TRUE IN Abs(t[i].amount) + Go(R \ {i})
    IN Go(S)

(***************************************************************************)
(* The idempotency cache (utils.py).                                       *)
(***************************************************************************)
\* cache.get(idempotency_key): an entry is gone CACHE_TIMEOUT seconds after
\* it was set.
CacheGet(k) ==
    IF idem[k] # NoEntry /\ (now - idem[k].at) * 60 < CACHE_TIMEOUT
    THEN idem[k] ELSE NoEntry

\* IdempotencyChecker.is_processed
is_processed(k) == CacheGet(k) # NoEntry

\* IdempotencyChecker.mark_processed: cache.set(key, response.data, timeout)
mark_processed(k, r) ==
    [idem EXCEPT ![k] = [code |-> r.code, body |-> r.body, txid |-> r.txid, at |-> now]]

(***************************************************************************)
(* Init: the wallets hold their starting balances.  The transaction table  *)
(* is empty, or holds the two PENDING legs of one transfer from wallet 1   *)
(* to wallet 2 in the format views.py, serializers.py and tasks.py read    *)
(* (DEBIT on the sender, CREDIT on the recipient), its amount held off the *)
(* sender's balance, or holds an unredeemed cash-out of wallet 2 and the   *)
(* withdrawal that emptied that wallet afterwards.                         *)
(***************************************************************************)
StoredTransfer(a) ==
    << [wallet |-> 1, related |-> 2, amount |-> a, type |-> "DEBIT",
        funding |-> "INTERNAL", prefix |-> "TRANSFER-", code |-> 1,
        status |-> "PENDING", created |-> 0, expiry |-> NoTime, key |-> NoKey,
        txn |-> NoTxn],
       [wallet |-> 2, related |-> 1, amount |-> a, type |-> "CREDIT",
        funding |-> "INTERNAL", prefix |-> "TRANSFER-", code |-> 1,
        status |-> "PENDING", created |-> 0, expiry |-> NoTime, key |-> NoKey,
        txn |-> NoTxn] >>

\* What a wallet that held a is left with after request_cash_out(a) and a
\* withdrawal of a: the PENDING cash-out row, its code still unredeemed, and
\* the COMPLETED WITHDRAWAL row, on wallet 2, whose balance is 0 by now.
StoredCashOut(a) ==
    << [wallet |-> 2, related |-> NoWallet, amount |-> a, type |-> "WITHDRAWAL",
        funding |-> "BLF_ATM", prefix |-> "BLF-ATM-", code |-> 1,
        status |-> "PENDING", created |-> 0, expiry |-> CASH_OUT_EXPIRY_MINUTES,
        key |-> NoKey, txn |-> NoTxn],
       [wallet |-> 2, related |-> NoWallet, amount |-> -a, type |-> "WITHDRAWAL",
        funding |-> "BLF_ATM", prefix |-> "WITHDRAWAL-", code |-> 2,
        status |-> "COMPLETED", created |-> 0, expiry |-> NoTime,
        key |-> NoKey, txn |-> NoTxn] >>

\* The sum of the amounts the COMPLETED withdrawals of t have paid out.
Withdrawn(t) ==
    LET S == {i \in 1..Len(t) : t[i].type = "WITHDRAWAL" /\ t[i].status = "COMPLETED"}
        RECURSIVE Go(_)
        Go(R) == IF R = {} THEN 0
                 ELSE LET i == CHOOSE j \in R : TRUE IN Abs(t[i].amount) + Go(R \ {i})
    IN Go(S)

Start(S) ==
    /\ slots = S
    /\ balance = [w \in Wallets |-> InitBalance[w]]
    /\ txs \in {<< >>, StoredTransfer(2), StoredCashOut(2)}
    /\ idem = [k \in Keys |-> NoEntry]
    /\ now = 0
    /\ reqs = [p \in Procs |-> Idle]
    /\ started = 0
    /\ initTotal = SumOver(Wallets, balance) + Held(txs) + Withdrawn(txs)
    /\ lists = [u \in Wallets |-> NoList]

Init == Start(SeqProcs)

ConcInit == Start(ConcProcs)

\* signals.invalidate_transaction_cache, the post_save receiver of
\* Transaction: when a row was created, the list cache entries of the users
\* of its wallet and of its related wallet are deleted; a save of an
\* existing row (created false) deletes nothing.
Signals ==
    lists' = [u \in Wallets |->
                IF \E i \in (Len(txs) + 1)..Len(txs') : u \in {txs'[i].wallet, txs'[i].related}
                THEN NoList ELSE lists[u]]

(***************************************************************************)
(* Time passes between requests: a step of a handler takes milliseconds,   *)
(* the clock of the model counts half days.                                *)
(***************************************************************************)
Tick ==
    /\ \A p \in Procs : reqs[p].pc = "idle"
    /\ now + TickMinutes <= MaxClock
    /\ now' = now + TickMinutes
    /\ UNCHANGED <<balance, txs, idem, reqs, started, fixed, lists>>

\* Slot p takes a new request.
Begin(p) ==
    /\ p \in slots
    /\ reqs[p].pc = "idle"
    /\ started < (IF slots = SeqProcs THEN MaxRequests ELSE MaxOverlapping)
    /\ started' = started + 1

\* Only the identity of a key matters: k2 is used once k1 has been.
KeyUsable(k) ==
    \/ k = "k1"
    \/ idem["k1"] # NoEntry
    \/ \E q \in slots : reqs[q].key = "k1"
    \/ \E i \in Ids : txs[i].key = "k1"

\* The handler of slot p has its response r.
Finish(p, r) == reqs' = [reqs EXCEPT ![p] = [@ EXCEPT !.pc = "done", !.resp = r]]

\* The response of slot p is returned to the client.
Return(p) ==
    /\ reqs[p].pc = "done"
    /\ reqs' = [reqs EXCEPT ![p] = Idle]
    /\ UNCHANGED <<balance, txs, idem, now, started, fixed>>
    /\ Signals

\* The row lock of wallet w: an UPDATE or a SELECT ... FOR UPDATE of the row
\* inside an atomic block waits while the open block of another request has
\* updated the row; reqs[q].held are the wallet rows the block of q holds.
RowFree(p, w) == \A q \in Procs \ {p} : w \notin reqs[q].held

\* A faulty update_balance that saves the balance it loaded.
update_balance_stale(w, loaded, amt) == [balance EXCEPT ![w] = loaded]

\* WalletRepository.update_balance: the wallet object was loaded with
\* balance `loaded`; wallet.balance += amount; save(update_fields=['balance']).
update_balance(w, loaded, amt) == [balance EXCEPT ![w] = loaded + amt]

\* IdempotencyMixin.enforce_idempotency, after process_func has returned a
\* response: mark_processed(key, response.data); return response.
Mark(p) ==
    /\ reqs[p].pc = "mark"
    /\ idem' = mark_processed(reqs[p].key, reqs[p].resp)
    /\ Finish(p, reqs[p].resp)
    /\ UNCHANGED <<balance, txs, now, started, fixed>>
    /\ Signals

(***************************************************************************)
(* PaysendWebhookView.post                                                 *)
(***************************************************************************)
\* enforce_idempotency: a processed key is answered from the cache with
\* status 200; otherwise process_paysend_webhook runs.  ipOk: REMOTE_ADDR is
\* in IP_WHITELIST; sigOk: the signature header matches the body;
\* completed: payload.status = "COMPLETED"; tid: payload.transactionId;
\* phone, amt: the recipient fields.
WebhookCheck(p, k, ipOk, sigOk, completed, tid, phone, amt) ==
    /\ Begin(p)
    /\ KeyUsable(k)
    /\ LET r == [Idle EXCEPT !.op = "webhook", !.key = k, !.txn = tid,
                              !.trusted = ipOk /\ sigOk] IN
       IF is_processed(k)
       THEN reqs' = [reqs EXCEPT ![p] =
                [r EXCEPT !.pc = "done", !.act = "replay",
                          !.resp = Resp(200, CacheGet(k).body, CacheGet(k).txid)]]
       ELSE reqs' = [reqs EXCEPT ![p] =
                [r EXCEPT !.pc = "process",
                          !.user = IF ipOk /\ sigOk /\ completed THEN phone ELSE 0,
                          !.amount = IF ipOk /\ sigOk /\ completed THEN amt ELSE 0,
                          !.act = IF ~ipOk THEN "ip"
                                  ELSE IF ~sigOk THEN "signature"
                                  ELSE IF ~completed THEN "ignored"
                                  ELSE "deposit"]]
    /\ UNCHANGED <<balance, txs, idem, now, fixed>>
    /\ Signals

\* process_paysend_webhook up to the deposit: the two 401 responses and the
\* "ignored" response are returned (and stored); get_object_or_404 raises.
WebhookProcess(p) ==
    /\ reqs[p].pc = "process"
    /\ reqs[p].op = "webhook"
    /\ LET r == reqs[p] IN
       IF r.act = "ip"
       THEN reqs' = [reqs EXCEPT ![p] = [r EXCEPT !.pc = "mark", !.resp = Resp(401, "Unauthorized", 0)]]
       ELSE IF r.act = "signature"
       THEN reqs' = [reqs EXCEPT ![p] = [r EXCEPT !.pc = "mark", !.resp = Resp(401, "Invalid signature", 0)]]
       ELSE IF r.act = "ignored"
       THEN reqs' = [reqs EXCEPT ![p] = [r EXCEPT !.pc = "mark", !.resp = Resp(200, "ignored", 0)]]
       ELSE IF r.user \in Wallets
       THEN reqs' = [reqs EXCEPT ![p] = [r EXCEPT !.pc = "deposit", !.wallet = r.user,
                                                  !.loaded = balance[r.user]]]
       ELSE Finish(p, Resp(404, "Not found", 0))
    /\ UNCHANGED <<balance, txs, idem, now, started, fixed>>
    /\ Signals

\* _extract_transaction_data: the reference the view hands to the service.
PaysendReference(tid) == <<"Paysend: ", tid>>

\* DepositStrategy.process: the atomic block credits the wallet and inserts
\* the COMPLETED DEPOSIT row under a reference of its own (neither the
\* reference of the view nor the rows already stored are read); the
\* notification follows the commit, and its failure (sinkOk false) is a 500.
\* The txn field records the payment a row was written for.
WebhookDeposit(p, sinkOk, c) ==
    /\ reqs[p].pc = "deposit"
    /\ RowFree(p, reqs[p].wallet)
    /\ LET r == reqs[p] IN
       /\ balance' = update_balance(r.wallet, r.loaded, r.amount)
       /\ txs' = Append(txs, [NewTx(r.wallet, NoWallet, r.amount, "DEPOSIT", "PAYSEND",
                                    "DEPOSIT-", c, "COMPLETED", NoTime, r.key)
                               EXCEPT !.txn = r.txn])
       /\ IF sinkOk
          THEN reqs' = [reqs EXCEPT ![p] =
                   [r EXCEPT !.pc = "mark", !.resp = Resp(200, "processed", Len(txs) + 1)]]
          ELSE Finish(p, Resp(500, "Internal server error", 0))
    /\ UNCHANGED <<idem, now, started, fixed>>
    /\ Signals

Webhook(p) ==
    \/ \E k \in Keys, ipOk, sigOk, completed \in BOOLEAN, tid \in TransactionIds,
          phone \in DepositPhones, amt \in DepositAmounts :
            WebhookCheck(p, k, ipOk, sigOk, completed, tid, phone, amt)
    \/ WebhookProcess(p)
    \/ \E sinkOk \in BOOLEAN, c \in Uuid8("DEPOSIT-") : WebhookDeposit(p, sinkOk, c)

(***************************************************************************)
(* TransactionViewSet.process_action with the accept and reject commands   *)
(***************************************************************************)
\* A reference is the pair of its prefix and its code.
RefOf(t) == <<t.prefix, t.code>>

NoRef == <<"TRANSFER-", 0>>

\* The references a client may send: those of the transfer legs, and one
\* that no leg carries (any other reference is answered like that one).
Refs == {RefOf(txs[i]) : i \in {j \in Ids : txs[j].type \in {"DEBIT", "CREDIT"}}} \cup {NoRef}

\* Transaction.objects.filter(reference=..., transaction_type=...)
Legs(ref, type) == {i \in Ids : RefOf(txs[i]) = ref /\ txs[i].type = type}

PendingLegs(ref, type) == {i \in Legs(ref, type) : txs[i].status = "PENDING"}

\* An authenticated user who has no wallet in Wallets and is party to no transfer.
Outsider == 4

\* request.user of process_action: any authenticated user.
Callers == Wallets \cup {Outsider}

\* An ownership test that also lets the sender of the transfer act on it.
OwnsEitherLeg(u, i) == u \in {txs[i].wallet, txs[i].related}

\* recipient_tx.wallet.user == user
OwnsIncomingLeg(u, i) == txs[i].wallet = u

\* TransactionActionSerializer.validate, then the two _get_transaction
\* lookups of the view, which do not look at the status.
ActionValidate(p, u, act, ref) ==
    /\ Begin(p)
    /\ LET r == [Idle EXCEPT !.op = act, !.user = u, !.code = ref[2]]
           S == PendingLegs(ref, "DEBIT")
           R == PendingLegs(ref, "CREDIT")
           fail(c, b) == reqs' = [reqs EXCEPT ![p] = [r EXCEPT !.pc = "done", !.resp = Resp(c, b, 0)]]
       IN
       IF S = {} \/ R = {}
       THEN fail(400, "Pending transaction not found")
       ELSE IF ~OwnsIncomingLeg(u, MinId(R))
       THEN fail(400, "You can only accept/reject your own transactions")
       ELSE IF Cardinality(Legs(ref, "DEBIT")) > 1 \/ Cardinality(Legs(ref, "CREDIT")) > 1
       THEN fail(500, "Internal server error")
       ELSE reqs' = [reqs EXCEPT ![p] =
                [r EXCEPT !.pc = "load", !.stx = MinId(Legs(ref, "DEBIT")),
                          !.rtx = MinId(Legs(ref, "CREDIT"))]]
    /\ UNCHANGED <<balance, txs, idem, now, fixed>>
    /\ Signals

\* The wallet a command pays into: recipient_transaction.wallet for accept,
\* sender_transaction.wallet for reject.
ActionWallet(r) == IF r.op = "accept" THEN txs[r.rtx].wallet ELSE txs[r.stx].wallet

\* The command reads that wallet through the foreign key of the fetched row.
ActionLoad(p) ==
    /\ reqs[p].pc = "load"
    /\ reqs' = [reqs EXCEPT ![p] = [@ EXCEPT !.pc = "write", !.wallet = ActionWallet(reqs[p]),
                                             !.loaded = balance[ActionWallet(reqs[p])]]]
    /\ UNCHANGED <<balance, txs, idem, now, started, fixed>>
    /\ Signals

\* TransactionRepository.update_status on the rows ids: save(update_fields=['status']).
update_status(ids, st) ==
    [i \in Ids |-> IF i \in ids THEN [txs[i] EXCEPT !.status = st] ELSE txs[i]]

\* A completion that writes the sender leg only.
complete_sender_leg(t, r) ==
    [i \in DOMAIN t |-> IF i = r.stx THEN [t[i] EXCEPT !.status = "COMPLETED"] ELSE t[i]]

\* AcceptTransactionCommand._complete_transactions on the rows t that
\* _credit_recipient has left: update_status(sender, COMPLETED), then
\* update_status(recipient, COMPLETED).
complete_transactions(t, r) ==
    [i \in DOMAIN t |-> IF i \in {r.stx, r.rtx} THEN [t[i] EXCEPT !.status = "COMPLETED"] ELSE t[i]]

\* A faulty accept that stops after _credit_recipient: the recipient leg
\* stays ACCEPTED and the sender leg PENDING.
AcceptWriteUncompleted(r) ==
    /\ balance' = update_balance(r.wallet, r.loaded, Abs(txs[r.rtx].amount))
    /\ txs' = update_status({r.rtx}, "ACCEPTED")

\* AcceptTransactionCommand.execute: credit the recipient with abs(amount),
\* recipient leg ACCEPTED, then both legs COMPLETED.
AcceptWrite(r) ==
    /\ balance' = update_balance(r.wallet, r.loaded, Abs(txs[r.rtx].amount))
    /\ txs' = complete_transactions(update_status({r.rtx}, "ACCEPTED"), r)

\* A faulty reject that marks the legs and refunds nothing.
RejectWriteNoRefund(r) ==
    /\ balance' = balance
    /\ txs' = update_status({r.stx, r.rtx}, "REJECTED")

\* RejectTransactionCommand.execute: refund the sender with abs(amount),
\* both legs REJECTED.
RejectWrite(r) ==
    /\ balance' = update_balance(r.wallet, r.loaded, Abs(txs[r.stx].amount))
    /\ txs' = update_status({r.stx, r.rtx}, "REJECTED")

\* _notify_users publishes one notification to the sender and one to the
\* recipient.
NotifyCount == 2

\* The atomic block of the command.  _notify_users runs inside it, after the
\* writes: sent is the number of notifications published before a
\* send_transaction_notification raised (NotifyCount when none did).  When
\* one raises, the exception leaves the block and the writes roll back; what
\* was published stays published.
ActionWrite(p, sent) ==
    /\ reqs[p].pc = "write"
    /\ RowFree(p, reqs[p].wallet)
    /\ LET r == [reqs[p] EXCEPT !.notices = sent]
           Finished(resp) == reqs' = [reqs EXCEPT ![p] = [r EXCEPT !.pc = "done", !.resp = resp]]
       IN
       IF sent < NotifyCount
       THEN /\ UNCHANGED <<balance, txs>>
            /\ Finished(Resp(500, "Internal server error", 0))
       ELSE IF r.op = "accept"
       THEN /\ AcceptWrite(r)
            /\ Finished(Resp(200, "Transaction accepted", 0))
       ELSE /\ RejectWrite(r)
            /\ Finished(Resp(200, "Transaction rejected", 0))
    /\ UNCHANGED <<idem, now, started, fixed>>
    /\ Signals

ProcessAction(p) ==
    \/ \E u \in Callers, act \in {"accept", "reject"}, ref \in Refs : ActionValidate(p, u, act, ref)
    \/ ActionLoad(p)
    \/ \E sent \in 0..NotifyCount : ActionWrite(p, sent)

(***************************************************************************)
(* tasks.expire_old_transactions                                           *)
(***************************************************************************)
\* A queryset that does not filter on the status.
ExpirableAnyStatus == {i \in Ids : txs[i].created <= now - EXPIRY_THRESHOLD_HOURS * 60}

\* The queryset: PENDING rows created EXPIRY_THRESHOLD_HOURS ago or earlier.
Expirable == {i \in Ids : txs[i].status = "PENDING"
                          /\ txs[i].created <= now - EXPIRY_THRESHOLD_HOURS * 60}

ExpiryScan(p) ==
    /\ Begin(p)
    /\ reqs' = [reqs EXCEPT ![p] = [Idle EXCEPT !.pc = "expire", !.op = "expiry", !.scan = Expirable]]
    /\ UNCHANGED <<balance, txs, idem, now, fixed>>
    /\ Signals

\* What the loop pays into wallet w: abs(amount) of every scanned CREDIT row
\* of w, each added to the balance the locked read returns.
Refunds(scan, w) ==
    LET S == {i \in scan : txs[i].type = "CREDIT" /\ txs[i].wallet = w}
        RECURSIVE Go(_)
        Go(R) == IF R = {} THEN 0
                 ELSE LET i == CHOOSE j \in R : TRUE IN Abs(txs[i].amount) + Go(R \ {i})
    IN Go(S)

\* The loop, inside one atomic block: every scanned row is saved with status
\* EXPIRED, whatever its status is by now; the task returns the number of
\* rows.  dbOk: no save() and no wallet read of the loop raises.  An
\* exception is raised again through the atomic block, which rolls back
\* every write of the run, and through the task.
ExpiryApply(p, dbOk) ==
    /\ reqs[p].pc = "expire"
    /\ \A i \in reqs[p].scan : txs[i].type = "CREDIT" => RowFree(p, txs[i].wallet)
    /\ IF dbOk \/ reqs[p].scan = {}
       THEN /\ txs' = update_status(reqs[p].scan, "EXPIRED")
            /\ balance' = [w \in Wallets |-> balance[w] + Refunds(reqs[p].scan, w)]
            /\ Finish(p, Resp(200, "expired", Cardinality(reqs[p].scan)))
       ELSE /\ UNCHANGED <<balance, txs>>
            /\ Finish(p, Resp(500, "Transaction task failed", 0))
    /\ UNCHANGED <<idem, now, started, fixed>>
    /\ Signals

ExpiryWorker(p) == ExpiryScan(p) \/ \E dbOk \in BOOLEAN : ExpiryApply(p, dbOk)

(***************************************************************************)
(* WalletViewSet.transfer with TransferStrategy                            *)
(***************************************************************************)
\* The members of Transaction.TransactionTypes that TransferStrategy names
\* for the sender's and the recipient's leg.
TransferLegTypes == <<"TRANSFER_OUT", "TRANSFER_IN">>

\* A validation that lets a user transfer to themselves.
TransferErrorSelfAllowed(s, rcp, a) ==
    IF a <= 0 THEN "Amount must be positive"
    ELSE IF balance[s] < a THEN "Insufficient funds"
    ELSE IF rcp \notin Wallets THEN "User does not exist"
    ELSE "none"

\* TransferSerializer.validate: the detail of the CustomValidationError it
\* raises, "none" when the data is valid.
TransferError(s, rcp, a) ==
    IF a <= 0 THEN "Amount must be positive"
    ELSE IF balance[s] < a THEN "Insufficient funds"
    ELSE IF rcp \notin Wallets THEN "User does not exist"
    ELSE IF rcp = s THEN "Cannot transfer to yourself"
    ELSE "none"

\* TransferSerializer.validate, then the view reads sender.wallet.  cref is
\* the reference of the request data, which the view hands to the service.
TransferValidate(p, s, rcp, a, cref) ==
    /\ Begin(p)
    /\ LET r == [Idle EXCEPT !.op = "transfer", !.user = s, !.other = rcp, !.amount = a,
                              !.ref = cref]
           fail(b) == reqs' = [reqs EXCEPT ![p] = [r EXCEPT !.pc = "done", !.resp = Resp(400, b, 0)]]
       IN
       IF TransferError(s, rcp, a) # "none" THEN fail(TransferError(s, rcp, a))
       ELSE reqs' = [reqs EXCEPT ![p] =
                [r EXCEPT !.pc = "debit", !.wallet = s, !.loaded = balance[s]]]
    /\ UNCHANGED <<balance, txs, idem, now, fixed>>
    /\ Signals

\* A transfer that updates the recipient's row after the sender's.
TransferLockOrderBoth(r) == <<r.wallet, r.other>>

\* The wallet rows the atomic block of TransferStrategy.process updates, in
\* the order of its statements: _process_sender_transaction debits the
\* sender; _process_recipient_transaction updates no wallet.
TransferLockOrder(r) == <<r.wallet>>

\* update_balance inside the atomic block: the UPDATE takes the row lock of
\* the wallet, waiting while another open block holds it; the lock is kept
\* until the block commits or rolls back.
TransferLock(p) ==
    /\ reqs[p].pc = "debit"
    /\ LET r == reqs[p]
           o == TransferLockOrder(r)
           n == Cardinality(r.held) + 1
       IN
       /\ RowFree(p, o[n])
       /\ reqs' = [reqs EXCEPT ![p] =
              [r EXCEPT !.held = r.held \cup {o[n]},
                        !.pc = IF n = Len(o) THEN "transfer" ELSE "debit"]]
    /\ UNCHANGED <<balance, txs, idem, now, started, fixed>>
    /\ Signals

\* A failure that leaves the debit of the sender committed.
TransferDebitKept(r) ==
    /\ balance' = update_balance(r.wallet, r.loaded, -r.amount)
    /\ txs' = txs

\* An exception leaves `with db_transaction.atomic()`: the debit made by
\* _process_sender_transaction and any inserted leg are rolled back.
TransferRollback(r) ==
    /\ balance' = balance
    /\ txs' = txs

\* TransferStrategy.process: the atomic block debits the sender and inserts
\* the two PENDING legs under the reference TRANSFER-<c> it has generated.
\* Looking up a member that TransactionTypes does not define raises
\* AttributeError inside the block, which rolls the debit back.  The
\* notifications follow the commit.
TransferCommit(p, sinkOk, c) ==
    /\ reqs[p].pc = "transfer"
    /\ LET r == [reqs[p] EXCEPT !.code = c, !.held = {}]
           Finished(resp) == reqs' = [reqs EXCEPT ![p] = [r EXCEPT !.pc = "done", !.resp = resp]]
       IN
       IF \A n \in 1..2 : TransferLegTypes[n] \in TransactionTypes
       THEN /\ balance' = update_balance(r.wallet, r.loaded, -r.amount)
            /\ txs' = txs \o
                 << NewTx(r.wallet, r.other, r.amount, TransferLegTypes[1], "INTERNAL",
                          "TRANSFER-", c, "PENDING", NoTime, NoKey),
                    NewTx(r.other, r.wallet, r.amount, TransferLegTypes[2], "INTERNAL",
                          "TRANSFER-", c, "PENDING", NoTime, NoKey) >>
            /\ IF sinkOk
               THEN Finished(Resp(200, "Transfer initiated successfully", c))
               ELSE Finished(Resp(500, "Internal server error", 0))
       ELSE /\ TransferRollback(r)
            /\ Finished(Resp(500, "Internal server error", 0))
    /\ UNCHANGED <<idem, now, started, fixed>>
    /\ Signals

Transfer(p) ==
    \/ \E s \in Wallets, rcp \in Wallets \cup {NoUser}, a \in Amounts \cup {0},
          cref \in ClientRefs :
            TransferValidate(p, s, rcp, a, cref)
    \/ TransferLock(p)
    \/ \E sinkOk \in BOOLEAN, c \in Uuid8("TRANSFER-") : TransferCommit(p, sinkOk, c)

(***************************************************************************)
(* WalletService.process(process_type='withdrawal') with WithdrawalStrategy *)
(***************************************************************************)
\* The caller passes the wallet object it has loaded.
WithdrawLoad(p, w, a) ==
    /\ Begin(p)
    /\ reqs' = [reqs EXCEPT ![p] = [Idle EXCEPT !.pc = "withdraw", !.op = "withdraw", !.user = w,
                                                !.wallet = w, !.amount = a, !.loaded = balance[w]]]
    /\ UNCHANGED <<balance, txs, idem, now, fixed>>
    /\ Signals

\* The atomic block debits the wallet and inserts the COMPLETED WITHDRAWAL
\* row with amount = -amount; the notification follows the commit.
WithdrawCommit(p, sinkOk, c) ==
    /\ reqs[p].pc = "withdraw"
    /\ RowFree(p, reqs[p].wallet)
    /\ LET r == reqs[p] IN
       /\ balance' = update_balance(r.wallet, r.loaded, -r.amount)
       /\ txs' = Append(txs, NewTx(r.wallet, NoWallet, -r.amount, "WITHDRAWAL", "BLF_ATM",
                                   "WITHDRAWAL-", c, "COMPLETED", NoTime, NoKey))
       /\ IF sinkOk
          THEN Finish(p, Resp(200, "withdrawn", Len(txs) + 1))
          ELSE Finish(p, Resp(500, "Internal server error", 0))
    /\ UNCHANGED <<idem, now, started, fixed>>
    /\ Signals

Withdraw(p) ==
    \/ \E w \in Wallets, a \in Amounts : WithdrawLoad(p, w, a)
    \/ \E sinkOk \in BOOLEAN, c \in Uuid8("WITHDRAWAL-") : WithdrawCommit(p, sinkOk, c)

(***************************************************************************)
(* WalletViewSet.cash_out_request with WalletService.request_cash_out      *)
(***************************************************************************)
\* A cash-out row whose code expires at the moment it is issued.
CashOutRowExpired(u, a, c) ==
    NewTx(u, NoWallet, a, "WITHDRAWAL", "BLF_ATM", "BLF-ATM-", c, "PENDING", now, NoKey)

\* transaction_repository.create(...) of request_cash_out: the code is the
\* first 8 hex digits of a uuid4, the expiry time CASH_OUT_EXPIRY_MINUTES away.
CashOutRow(u, a, c) ==
    NewTx(u, NoWallet, a, "WITHDRAWAL", "BLF_ATM", "BLF-ATM-", c, "PENDING",
          now + CASH_OUT_EXPIRY_MINUTES, NoKey)

\* CashOutRequestSerializer.validate, then the PENDING WITHDRAWAL row under
\* BLF-ATM-<code> with its expiry time; the balance is not touched.  The
\* row is inserted in autocommit, so it stays when the notification fails.
CashOutRequest(p, u, a, sinkOk, c) ==
    /\ Begin(p)
    /\ LET r == [Idle EXCEPT !.pc = "done", !.op = "cashout", !.user = u, !.amount = a] IN
       IF a <= 0
       THEN /\ reqs' = [reqs EXCEPT ![p] = [r EXCEPT !.resp = Resp(400, "Amount must be positive", 0)]]
            /\ txs' = txs
       ELSE IF balance[u] < a
       THEN /\ reqs' = [reqs EXCEPT ![p] = [r EXCEPT !.resp = Resp(400, "Insufficient funds", 0)]]
            /\ txs' = txs
       ELSE /\ txs' = Append(txs, CashOutRow(u, a, c))
            /\ reqs' = [reqs EXCEPT ![p] =
                   [r EXCEPT !.wallet = u, !.code = c,
                             !.resp = IF sinkOk THEN Resp(200, "Cash out request created", c)
                                      ELSE Resp(500, "Internal server error", 0)]]
    /\ UNCHANGED <<balance, idem, now, fixed>>
    /\ Signals

CashOut(p) ==
    \E u \in Wallets, a \in Amounts \cup {0}, sinkOk \in BOOLEAN, c \in Uuid8("BLF-ATM-") :
       CashOutRequest(p, u, a, sinkOk, c)

(***************************************************************************)
(* CashOutVerifyView.post with CashOutVerifySerializer and                 *)
(* WalletService.verify_cash_out                                           *)
(***************************************************************************)
\* settings.py does not set ATOMIC_REQUESTS: a view runs in autocommit.
ATOMIC_REQUESTS == FALSE

\* reference__endswith=withdrawal_code, for a client that sends a whole code.
EndsWith(t, c) == t.code = c

\* The withdrawal codes a client may send: those of the PENDING rows, those
\* that were issued for a cash-out, and one that no row carries.
Codes ==
    {txs[i].code : i \in {j \in Ids : txs[j].status = "PENDING" \/ txs[j].prefix = "BLF-ATM-"}}
        \cup {0}

\* filter(wallet__user__phone_number=..., reference__endswith=..., status=PENDING)
ByWithdrawalCode(phone, c) ==
    {i \in Ids : txs[i].wallet = phone /\ EndsWith(txs[i], c) /\ txs[i].status = "PENDING"}

\* enforce_idempotency of the verify endpoint.
VerifyCheck(p, k, ipOk, phone, c) ==
    /\ Begin(p)
    /\ KeyUsable(k)
    /\ LET r == [Idle EXCEPT !.op = "verify", !.key = k] IN
       IF is_processed(k)
       THEN reqs' = [reqs EXCEPT ![p] =
                [r EXCEPT !.pc = "done", !.act = "replay",
                          !.resp = Resp(200, CacheGet(k).body, CacheGet(k).txid)]]
       ELSE reqs' = [reqs EXCEPT ![p] =
                [r EXCEPT !.pc = "process", !.user = phone, !.code = c,
                          !.act = IF ipOk THEN "verify" ELSE "ip"]]
    /\ UNCHANGED <<balance, txs, idem, now, fixed>>
    /\ Signals

\* A serializer that raises only when no row matches.
VerifyFailureLookupOnly(r) ==
    IF ByWithdrawalCode(r.user, r.code) = {}
    THEN Resp(400, "Invalid withdrawal code or phone number", 0)
    ELSE NoEntry

\* What CashOutVerifySerializer.validate raises for the request r, as the
\* response it becomes; NoEntry when validate returns the data.
VerifyFailure(r) ==
    LET M == ByWithdrawalCode(r.user, r.code)
        t == MinId(M)
    IN
    IF ~ATOMIC_REQUESTS THEN Resp(500, "Internal server error", 0)
    ELSE IF M = {} THEN Resp(400, "Invalid withdrawal code or phone number", 0)
    ELSE IF txs[t].expiry = NoTime THEN Resp(500, "Internal server error", 0)
    ELSE IF now > txs[t].expiry THEN Resp(400, "Withdrawal code has expired", 0)
    ELSE IF "user" \notin TransactionFields THEN Resp(500, "Internal server error", 0)
    ELSE IF balance[txs[t].wallet] < Abs(txs[t].amount) THEN Resp(400, "Insufficient funds", 0)
    ELSE NoEntry

\* process_cashout_verify.  The serializer evaluates a select_for_update
\* queryset, which raises TransactionManagementError in autocommit; it reads
\* transaction.user, which raises AttributeError unless Transaction has such
\* a field; comparing now with a null expiry_time raises TypeError.  What is
\* raised is not stored under the key; what is returned goes through Mark.
VerifyProcess(p) ==
    /\ reqs[p].pc = "process"
    /\ reqs[p].op = "verify"
    /\ LET r == reqs[p]
           M == ByWithdrawalCode(r.user, r.code)
           t == MinId(M)
           w == txs[t].wallet
           raise(c, b) == /\ Finish(p, Resp(c, b, 0))
                          /\ UNCHANGED <<balance, txs>>
           return(c, b) == /\ reqs' = [reqs EXCEPT ![p] = [r EXCEPT !.pc = "mark", !.resp = Resp(c, b, 0)]]
                           /\ UNCHANGED <<balance, txs>>
       IN
       IF VerifyFailure(r) # NoEntry THEN raise(VerifyFailure(r).code, VerifyFailure(r).body)
       ELSE IF r.act = "ip" THEN return(401, "Unauthorized")
       ELSE \* verify_cash_out: debit the wallet by the amount, row COMPLETED
            /\ balance' = update_balance(w, balance[w], -txs[t].amount)
            /\ txs' = update_status({t}, "COMPLETED")
            /\ reqs' = [reqs EXCEPT ![p] =
                   [r EXCEPT !.pc = "mark", !.wallet = w, !.stx = t, !.resp = Resp(200, "approved", t)]]
    /\ UNCHANGED <<idem, now, started, fixed>>
    /\ Signals

CashOutVerify(p) ==
    \/ \E k \in Keys, ipOk \in BOOLEAN, phone \in Wallets \cup {NoUser}, c \in Codes :
          VerifyCheck(p, k, ipOk, phone, c)
    \/ VerifyProcess(p)

Step(p) ==
    \/ Webhook(p)
    \/ ProcessAction(p)
    \/ ExpiryWorker(p)
    \/ Transfer(p)
    \/ Withdraw(p)
    \/ CashOut(p)
    \/ CashOutVerify(p)
    \/ Mark(p)
    \/ Return(p)

Next == Tick \/ \E p \in Procs : Step(p)

Spec == Init /\ [][Next]_vars

ConcSpec == ConcInit /\ [][Next]_vars

(***************************************************************************)
(* Overlapping Transfer commands between two funded wallets, each request  *)
(* run to its end by the server (weak fairness of its steps).              *)
(***************************************************************************)
FundedBalance == <<2, 2>>

TransferInit ==
    /\ slots = ConcProcs
    /\ balance = [w \in Wallets |-> FundedBalance[w]]
    /\ txs = << >>
    /\ idem = [k \in Keys |-> NoEntry]
    /\ now = 0
    /\ reqs = [p \in Procs |-> Idle]
    /\ started = 0
    /\ initTotal = SumOver(Wallets, balance)
    /\ lists = [u \in Wallets |-> NoList]

TransferStep(p) == Transfer(p) \/ Return(p)

TransferNext == \E p \in Procs : TransferStep(p)

TransferSpec ==
    TransferInit /\ [][TransferNext]_vars /\ \A p \in Procs : WF_vars(TransferStep(p))

(***************************************************************************)
(* TransactionViewSet.list and its cache, with the commands that insert    *)
(* rows or update their status, served one at a time.                      *)
(***************************************************************************)
\* get_queryset for a user who is not staff: the rows whose wallet or
\* related wallet is the user's, as the serializer shows them.
Visible(u) ==
    {<<i, txs[i].status>> : i \in {j \in Ids : txs[j].wallet = u \/ txs[j].related = u}}

\* cache.get(cache_key): an entry is gone LIST_CACHE_TIMEOUT seconds after
\* it was set.
ListCacheGet(u) ==
    IF lists[u] # NoList /\ (now - lists[u].at) * 60 < LIST_CACHE_TIMEOUT
    THEN lists[u] ELSE NoList

\* list: a cached page is returned as it is; otherwise the query runs and
\* its page is cached.
ListTransactions(p, u) ==
    /\ p \in slots
    /\ reqs[p].pc = "idle"
    /\ LET r == [Idle EXCEPT !.pc = "done", !.op = "list", !.user = u, !.resp = Resp(200, "list", 0)] IN
       IF ListCacheGet(u) # NoList
       THEN /\ reqs' = [reqs EXCEPT ![p] = [r EXCEPT !.act = "cached", !.data = ListCacheGet(u).data]]
            /\ lists' = lists
       ELSE /\ reqs' = [reqs EXCEPT ![p] = [r EXCEPT !.act = "query", !.data = Visible(u)]]
            /\ lists' = [lists EXCEPT ![u] = [data |-> Visible(u), at |-> now]]
    /\ UNCHANGED <<balance, txs, idem, now, started, fixed>>

List(p) == \E u \in Wallets : ListTransactions(p, u)

ListStep(p) == List(p) \/ ProcessAction(p) \/ CashOut(p) \/ Return(p)

ListNext == Tick \/ \E p \in Procs : ListStep(p)

ListSpec == Init /\ [][ListNext]_vars

(***************************************************************************)
(* Properties.                                                             *)
(***************************************************************************)
\* The rows of a type in a status.
RowsOf(type, st) == {i \in Ids : txs[i].type = type /\ txs[i].status = st}

RECURSIVE SumAmounts(_)
SumAmounts(S) ==
    IF S = {} THEN 0
    ELSE LET i == CHOOSE j \in S : TRUE IN txs[i].amount + SumAmounts(S \ {i})

\* Slot p takes the step that leaves pc value c.
Leaves(p, c) == reqs[p].pc = c /\ reqs'[p].pc # c

\* C1: every wallet's committed balance is >= 0 after any sequence of the
\* engine's operations started from non-negative balances.
C1_NonNegativeBalance == \A w \in Wallets : balance[w] >= 0

\* C2: conservation: the balances plus the amounts held by PENDING transfers
\* equal the initial total plus the COMPLETED deposits minus the COMPLETED
\* withdrawals and cash-outs.
C2_Conservation ==
    SumOver(Wallets, balance) + Held(txs)
        = initTotal + SumAmounts(RowsOf("DEPOSIT", "COMPLETED"))
          - SumOver(RowsOf("WITHDRAWAL", "COMPLETED"), [i \in Ids |-> Abs(txs[i].amount)])

\* C3: the amount a transfer holds is released once: a step of accept, of
\* reject or of the expiry task pays a hold out only while the legs it pays
\* for are PENDING.
C3_ReleasedOnce ==
    [][\A p \in slots :
         /\ (Leaves(p, "write") /\ reqs'[p].resp.code = 200)
               => (txs[reqs[p].stx].status = "PENDING" /\ txs[reqs[p].rtx].status = "PENDING")
         /\ Leaves(p, "expire")
               => \A i \in reqs[p].scan : txs[i].status = "PENDING"
      ]_vars

\* C4: a Transfer of a from S to R that passed validation (S # R, a > 0,
\* balance(S) >= a) decreases S's balance by a, leaves R's balance alone and
\* inserts two PENDING legs under one new reference.
C4_TransferEffect ==
    [][\A p \in slots : Leaves(p, "transfer") =>
         LET r == reqs[p]  n == Len(txs) IN
         /\ balance'[r.wallet] = balance[r.wallet] - r.amount
         /\ balance'[r.other] = balance[r.other]
         /\ Len(txs') = n + 2
         /\ SubSeq(txs', 1, n) = txs
         /\ txs'[n + 1].wallet = r.wallet /\ txs'[n + 2].wallet = r.other
         /\ \A j \in {n + 1, n + 2} : txs'[j].status = "PENDING" /\ txs'[j].amount = r.amount
         /\ RefOf(txs'[n + 1]) = RefOf(txs'[n + 2])
         /\ \A i \in 1..n : RefOf(txs[i]) # RefOf(txs'[n + 1])
      ]_vars

\* C5: an accept by the recipient of a PENDING transfer of a increases the
\* recipient's balance by a, leaves the sender's balance alone and makes
\* both legs COMPLETED.
C5_AcceptEffect ==
    [][\A p \in slots :
         (Leaves(p, "write") /\ reqs[p].op = "accept" /\ reqs'[p].resp.code = 200) =>
         LET s == reqs[p].stx  t == reqs[p].rtx IN
         /\ balance'[txs[t].wallet] = balance[txs[t].wallet] + txs[t].amount
         /\ balance'[txs[s].wallet] = balance[txs[s].wallet]
         /\ txs'[s].status = "COMPLETED" /\ txs'[t].status = "COMPLETED"
         /\ SumOver(Wallets, balance') + Held(txs') = SumOver(Wallets, balance) + Held(txs)
      ]_vars

C5_Accepted ==
    \E p \in slots :
       /\ reqs[p].pc = "done" /\ reqs[p].op = "accept" /\ reqs[p].resp.code = 200
       /\ txs[reqs[p].stx].status = "COMPLETED" /\ txs[reqs[p].rtx].status = "COMPLETED"
       /\ balance[txs[reqs[p].rtx].wallet] = InitBalance[txs[reqs[p].rtx].wallet] + txs[reqs[p].rtx].amount

\* C6: a reject by the recipient of a PENDING transfer of a increases the
\* sender's balance by a, leaves the recipient's balance alone and makes
\* both legs REJECTED.
C6_RejectEffect ==
    [][\A p \in slots :
         (Leaves(p, "write") /\ reqs[p].op = "reject" /\ reqs'[p].resp.code = 200) =>
         LET s == reqs[p].stx  t == reqs[p].rtx IN
         /\ balance'[txs[s].wallet] = balance[txs[s].wallet] + txs[s].amount
         /\ balance'[txs[t].wallet] = balance[txs[t].wallet]
         /\ txs'[s].status = "REJECTED" /\ txs'[t].status = "REJECTED"
      ]_vars

C6_Rejected ==
    \E p \in slots :
       /\ reqs[p].pc = "done" /\ reqs[p].op = "reject" /\ reqs[p].resp.code = 200
       /\ txs[reqs[p].stx].status = "REJECTED" /\ txs[reqs[p].rtx].status = "REJECTED"
       /\ balance[txs[reqs[p].stx].wallet] = InitBalance[txs[reqs[p].stx].wallet] + txs[reqs[p].stx].amount

\* C7: a run of the expiry task over a transfer whose legs have been PENDING
\* for more than 24 hours credits the wallet of the outgoing leg by the
\* amount, leaves the recipient's balance alone and makes both legs EXPIRED.
C7_ExpiryRefundsSender ==
    [][\A p \in slots : Leaves(p, "expire") =>
         \A s \in reqs[p].scan : txs[s].type = "DEBIT" =>
            /\ balance'[txs[s].wallet] = balance[txs[s].wallet] + txs[s].amount
            /\ balance'[txs[s].related] = balance[txs[s].related]
            /\ \A i \in Legs(RefOf(txs[s]), "DEBIT") \cup Legs(RefOf(txs[s]), "CREDIT") :
                  txs'[i].status = "EXPIRED"
      ]_vars

\* C8: a processed webhook deposit increases the balance of the wallet of
\* recipient.phone_number by recipient.amount, inserts one COMPLETED DEPOSIT
\* row on that wallet and changes no other wallet and no other row.
C8_DepositEffect ==
    [][\A p \in slots : Leaves(p, "deposit") =>
         LET r == reqs[p]  n == Len(txs) IN
         /\ balance'[r.user] = balance[r.user] + r.amount
         /\ \A w \in Wallets \ {r.user} : balance'[w] = balance[w]
         /\ Len(txs') = n + 1
         /\ SubSeq(txs', 1, n) = txs
         /\ txs'[n + 1].wallet = r.user /\ txs'[n + 1].type = "DEPOSIT"
         /\ txs'[n + 1].status = "COMPLETED" /\ txs'[n + 1].amount = r.amount
      ]_vars

C8_Processed ==
    \E p \in slots :
       /\ reqs[p].pc = "done" /\ reqs[p].op = "webhook" /\ reqs[p].act = "deposit"
       /\ reqs[p].resp.code = 200 /\ reqs[p].resp.body = "processed"
       /\ txs[reqs[p].resp.txid].type = "DEPOSIT"
       /\ balance[reqs[p].user] = InitBalance[reqs[p].user] + reqs[p].amount

\* C9: the deliveries of the deposit webhook that carry one Idempotency-Key
\* have one effect: at most one deposit is written for a key.
C9_OneEffectPerKey == \A k \in Keys : Cardinality({i \in Ids : txs[i].key = k}) <= 1

\* C10: the idempotency store is check-and-set: the response stored for a
\* key is the first one written, and no request writes over it.
C10_NeverOverwritten ==
    [][\A k \in Keys : is_processed(k) => idem'[k] = idem[k]]_vars


\* C11: two webhook deliveries that carry the same transactionId under
\* different Idempotency-Keys credit the wallet at most once: no two DEPOSIT
\* rows written for one transactionId come from deliveries with different keys.
C11_OncePerTransactionId ==
    \A i, j \in Ids :
       (/\ txs[i].type = "DEPOSIT" /\ txs[j].type = "DEPOSIT"
        /\ txs[i].txn = txs[j].txn /\ txs[i].key # txs[j].key) => i = j

\* C12: a request replayed with an already-used Idempotency-Key is answered
\* with the status and the body of the response stored for that key.
C12_ReplayIdentical ==
    \A p \in slots :
       (reqs[p].pc = "done" /\ reqs[p].act = "replay") =>
          /\ reqs[p].resp.code = idem[reqs[p].key].code
          /\ reqs[p].resp.body = idem[reqs[p].key].body

\* C13: a cash-out request with 0 < amount <= balance leaves every balance
\* unchanged and inserts exactly one row: PENDING, WITHDRAWAL, BLF_ATM, on
\* the requester's wallet, with that amount, under "BLF-ATM-" + code, its
\* expiry_time 30 minutes after the request.
C13_CashOutRequestEffect ==
    [][\A p \in slots :
         (/\ reqs[p].pc = "idle" /\ reqs'[p].op = "cashout"
          /\ 0 < reqs'[p].amount /\ reqs'[p].amount <= balance[reqs'[p].user]) =>
            LET r == reqs'[p]  n == Len(txs) IN
            /\ balance' = balance
            /\ Len(txs') = n + 1
            /\ SubSeq(txs', 1, n) = txs
            /\ txs'[n + 1].wallet = r.user /\ txs'[n + 1].amount = r.amount
            /\ txs'[n + 1].type = "WITHDRAWAL" /\ txs'[n + 1].funding = "BLF_ATM"
            /\ txs'[n + 1].status = "PENDING"
            /\ RefOf(txs'[n + 1]) = <<"BLF-ATM-", r.code>>
            /\ txs'[n + 1].expiry = now + 30
      ]_vars

C13_CashOutRequested ==
    \E p \in slots :
       /\ reqs[p].pc = "done" /\ reqs[p].op = "cashout"
       /\ reqs[p].resp.code = 200 /\ reqs[p].amount > 0
       /\ txs[reqs[p].resp.txid].status = "PENDING"
       /\ txs[reqs[p].resp.txid].type = "WITHDRAWAL"
       /\ txs[reqs[p].resp.txid].expiry = now + 30
       /\ balance[reqs[p].user] >= reqs[p].amount

\* The PENDING cash-out row that the verify request of slot p names, if any.
VerifyTarget(p) ==
    {i \in ByWithdrawalCode(reqs[p].user, reqs[p].code) : txs[i].prefix = "BLF-ATM-"}

\* Slot p takes the step that decides a verify request.
VerifyStep(p) == reqs[p].op = "verify" /\ Leaves(p, "process")

\* C14: a verify from a whitelisted address that names a PENDING, unexpired
\* cash-out whose amount is within the wallet's balance debits that wallet by
\* the amount and sets the row to COMPLETED.
C14_VerifyEffect ==
    [][\A p \in slots : \A t \in VerifyTarget(p) :
         (/\ VerifyStep(p) /\ reqs[p].act = "verify"
          /\ now <= txs[t].expiry /\ txs[t].amount <= balance[txs[t].wallet]) =>
            /\ balance'[txs[t].wallet] = balance[txs[t].wallet] - txs[t].amount
            /\ txs'[t].status = "COMPLETED"
      ]_vars

\* C16: a verify that names a PENDING cash-out whose expiry_time has passed
\* fails with "Withdrawal code has expired", changes no balance and leaves
\* the row EXPIRED.
C16_VerifyExpired ==
    [][\A p \in slots : \A t \in VerifyTarget(p) :
         (VerifyStep(p) /\ now > txs[t].expiry) =>
            /\ reqs'[p].resp.code = 400
            /\ reqs'[p].resp.body = "Withdrawal code has expired"
            /\ balance' = balance
            /\ txs'[t].status = "EXPIRED"
      ]_vars

\* C17: a verify that names a PENDING, unexpired cash-out whose amount
\* exceeds the wallet's balance fails with "Insufficient funds", changes no
\* balance and leaves the row FAILED.
C17_VerifyInsufficient ==
    [][\A p \in slots : \A t \in VerifyTarget(p) :
         (/\ VerifyStep(p)
          /\ now <= txs[t].expiry /\ txs[t].amount > balance[txs[t].wallet]) =>
            /\ reqs'[p].resp.code = 400
            /\ reqs'[p].resp.body = "Insufficient funds"
            /\ balance' = balance
            /\ txs'[t].status = "FAILED"
      ]_vars

\* The cash-out rows, of any status, issued to the phone number under the
\* code that the verify request of slot p sends.
VerifyIssued(p) ==
    {i \in Ids : /\ txs[i].prefix = "BLF-ATM-" /\ txs[i].wallet = reqs[p].user
                 /\ EndsWith(txs[i], reqs[p].code)}

Terminal(t) ==
    {"COMPLETED", "REJECTED", "EXPIRED"} \cup (IF t.prefix = "BLF-ATM-" THEN {"FAILED"} ELSE {})

\* C18: a committed status changes only from PENDING, to COMPLETED, REJECTED,
\* EXPIRED or (cash-out) FAILED; accept and reject pay out only for legs that
\* are PENDING; accept or reject on a transfer whose legs are no longer
\* PENDING fails with "Pending transaction not found".
C18_LegalTransitions ==
    [][/\ \A i \in Ids :
            txs'[i].status # txs[i].status =>
               (txs[i].status = "PENDING" /\ txs'[i].status \in Terminal(txs[i]))
       /\ \A p \in slots :
            /\ (Leaves(p, "write") /\ balance' # balance) =>
                  (txs[reqs[p].stx].status = "PENDING" /\ txs[reqs[p].rtx].status = "PENDING")
            /\ (/\ reqs[p].pc = "idle" /\ reqs'[p].op \in {"accept", "reject"}
                /\ Legs(<<"TRANSFER-", reqs'[p].code>>, "DEBIT") # {}
                /\ PendingLegs(<<"TRANSFER-", reqs'[p].code>>, "DEBIT") = {}) =>
                  /\ reqs'[p].resp.code = 400
                  /\ reqs'[p].resp.body = "Pending transaction not found"
      ]_vars

\* The rows of table t stored under reference ref.
RowsUnder(t, ref) == {i \in 1..Len(t) : RefOf(t[i]) = ref}

\* The references of the transfer rows of table t.
TransferRefs(t) == {RefOf(t[i]) : i \in {j \in 1..Len(t) : t[j].funding = "INTERNAL"}}

\* Reference ref has exactly two rows in t: an outgoing leg and an incoming
\* leg with wallet and related_wallet swapped and one amount.
TwoLegs(t, ref) ==
    /\ Cardinality(RowsUnder(t, ref)) = 2
    /\ \E i, j \in RowsUnder(t, ref) :
          /\ t[i].type \in {"DEBIT", "TRANSFER_OUT"} /\ t[j].type \in {"CREDIT", "TRANSFER_IN"}
          /\ t[i].related = t[j].wallet /\ t[j].related = t[i].wallet
          /\ t[i].amount = t[j].amount

C20_UniqueReference ==
    \A i, j \in Ids :
       (i # j /\ RefOf(txs[i]) = RefOf(txs[j])) =>
          /\ txs[i].funding = "INTERNAL" /\ txs[j].funding = "INTERNAL"
          /\ TwoLegs(txs, RefOf(txs[i]))


\* C21: no lost update: a command that commits a change of a wallet's
\* balance applies its signed amount to the balance that is committed at
\* that moment, whatever other commands on that wallet have committed since
\* it read the wallet.
C21_NoLostUpdate ==
    [][\A p \in slots :
         LET r == reqs[p] IN
         /\ Leaves(p, "deposit") => balance'[r.wallet] = balance[r.wallet] + r.amount
         /\ Leaves(p, "withdraw") => balance'[r.wallet] = balance[r.wallet] - r.amount
         /\ (Leaves(p, "write") /\ reqs'[p].resp.code = 200) =>
               balance'[r.wallet] = balance[r.wallet] + Abs(txs[r.stx].amount)
      ]_vars


\* Request p is a Transfer inside its atomic block or about to enter it.
InTransfer(p) == reqs[p].op = "transfer" /\ reqs[p].pc \in {"debit", "transfer"}

\* Request p waits for a row lock that request q holds.
WaitsFor(p, q) ==
    /\ reqs[p].pc = "debit"
    /\ TransferLockOrder(reqs[p])[Cardinality(reqs[p].held) + 1] \in reqs[q].held

\* C22: overlapping Transfer commands between the same two wallets, in
\* opposite directions or not, never deadlock: no two of them wait for each
\* other's row lock, and every Transfer that has passed validation
\* terminates, by commit or by rollback.
C22_NoTransferDeadlock ==
    /\ [](\A p, q \in Procs : ~(p # q /\ WaitsFor(p, q) /\ WaitsFor(q, p)))
    /\ \A p \in Procs : InTransfer(p) ~> (reqs[p].pc = "done")

C22_OppositeTransfersOverlap ==
    \E p, q \in Procs :
       /\ InTransfer(p) /\ InTransfer(q)
       /\ reqs[p].wallet = reqs[q].other /\ reqs[p].other = reqs[q].wallet
       /\ reqs[p].held = {reqs[p].wallet} /\ reqs[q].pc = "debit"


\* C23: a ListTransactions read is not served from a cache entry written
\* before an insert or a status update of a row of the reading user: a page
\* answered from the cache shows the user's rows as they are.
C23_ListNotStale ==
    \A p \in slots :
       (reqs[p].pc = "done" /\ reqs[p].op = "list" /\ reqs[p].act = "cached") =>
          reqs[p].data = Visible(reqs[p].user)


\* C24: a Transfer that is a self-transfer, names a user that does not
\* exist, has amount <= 0 or has an amount above the sender's balance is
\* answered 400 with the error of one of the conditions it violates, and
\* leaves every balance and every transaction as they were.
C24_TransferRejected ==
    [][\A p \in slots :
         (reqs[p].pc = "idle" /\ reqs'[p].op = "transfer") =>
            LET r == reqs'[p]
                errors ==
                    (IF r.other = r.user THEN {"Cannot transfer to yourself"} ELSE {})
                    \cup (IF r.other \notin Wallets THEN {"User does not exist"} ELSE {})
                    \cup (IF r.amount <= 0 THEN {"Amount must be positive"} ELSE {})
                    \cup (IF r.amount > balance[r.user] THEN {"Insufficient funds"} ELSE {})
            IN errors # {} =>
                  /\ r.pc = "done" /\ r.resp.code = 400 /\ r.resp.body \in errors
                  /\ balance' = balance /\ txs' = txs
      ]_vars

C24_SelfTransferRejected ==
    \E p \in slots :
       /\ reqs[p].pc = "done" /\ reqs[p].op = "transfer"
       /\ reqs[p].other = reqs[p].user /\ reqs[p].amount > 0
       /\ reqs[p].amount <= balance[reqs[p].user]
       /\ reqs[p].resp.code = 400 /\ reqs[p].resp.body = "Cannot transfer to yourself"


\* C25: an accept or reject of a PENDING transfer by a caller who does not own
\* its incoming (recipient) leg is answered 400 "You can only accept/reject
\* your own transactions" and changes no balance and no row; and every step
\* of an accept or reject that changes a balance or a row belongs to a
\* request of the owner of the incoming leg.
C25_OnlyRecipientActs ==
    [][\A p \in slots :
         /\ (reqs[p].pc = "idle" /\ reqs'[p].op \in {"accept", "reject"}) =>
               LET r == reqs'[p]
                   ref == <<"TRANSFER-", r.code>>
               IN (/\ PendingLegs(ref, "DEBIT") # {} /\ PendingLegs(ref, "CREDIT") # {}
                   /\ txs[MinId(PendingLegs(ref, "CREDIT"))].wallet # r.user) =>
                     /\ r.pc = "done" /\ r.resp.code = 400
                     /\ r.resp.body = "You can only accept/reject your own transactions"
                     /\ balance' = balance /\ txs' = txs
         /\ (Leaves(p, "write") /\ (balance' # balance \/ txs' # txs)) =>
               reqs[p].user = txs[reqs[p].rtx].wallet
      ]_vars

C25_SenderRefused ==
    \E p \in slots :
       /\ reqs[p].pc = "done" /\ reqs[p].op \in {"accept", "reject"}
       /\ reqs[p].resp.body = "You can only accept/reject your own transactions"
       /\ \E i \in Ids : /\ txs[i].type = "DEBIT" /\ txs[i].status = "PENDING"
                         /\ txs[i].code = reqs[p].code /\ txs[i].wallet = reqs[p].user


\* C26: a webhook request from an address outside the whitelist or with a
\* wrong signature changes no balance and inserts no transaction, and its
\* answer is 401 with "Unauthorized" or "Invalid signature".
C26_UntrustedWebhookRefused ==
    [][\A p \in slots :
         (reqs'[p].op = "webhook" /\ ~reqs'[p].trusted) =>
            /\ balance' = balance /\ txs' = txs
            /\ reqs'[p].pc = "done" =>
                  /\ reqs'[p].resp.code = 401
                  /\ reqs'[p].resp.body \in {"Unauthorized", "Invalid signature"}
      ]_vars


\* C27: a withdrawal of more than the balance of the wallet is answered 400
\* "Insufficient funds" and writes nothing: no balance and no row changes.
C27_OverdraftRefused ==
    [][\A p \in slots :
         (Leaves(p, "withdraw") /\ reqs[p].amount > balance[reqs[p].wallet]) =>
            /\ reqs'[p].resp.code = 400 /\ reqs'[p].resp.body = "Insufficient funds"
            /\ balance' = balance /\ txs' = txs
      ]_vars


\* The transfers stored from sender s to recipient rcp: their references.
TransfersBetween(s, rcp) ==
    {RefOf(txs[i]) : i \in {j \in Ids : /\ txs[j].type = TransferLegTypes[1]
                                         /\ txs[j].wallet = s /\ txs[j].related = rcp}}

\* C28: when the same transfer (same sender, recipient, amount and client
\* reference) has been requested twice and validation refused neither, one
\* transfer and one only is stored for it.
C28_TransferOncePerReference ==
    \A p, q \in slots :
       (/\ p # q
        /\ reqs[p].pc = "done" /\ reqs[q].pc = "done"
        /\ reqs[p].op = "transfer" /\ reqs[q].op = "transfer"
        /\ reqs[p].ref = reqs[q].ref
        /\ reqs[p].user = reqs[q].user /\ reqs[p].other = reqs[q].other
        /\ reqs[p].amount = reqs[q].amount
        /\ reqs[p].resp.code # 400 /\ reqs[q].resp.code # 400) =>
           Cardinality(TransfersBetween(reqs[p].user, reqs[p].other)) = 1


\* C29: the expiry worker is idempotent.  A run that completes leaves no row
\* for the next run to select, unless a row has come of age while it ran; a
\* run selects the rows of the queryset; and a run that has selected no row
\* changes no row and no balance and returns 0.
C29_ExpiryIdempotent ==
    [][\A p \in slots :
         /\ (Leaves(p, "expire") /\ reqs'[p].resp.code = 200 /\ Expirable \subseteq reqs[p].scan) =>
               Expirable' = {}
         /\ (reqs[p].pc = "idle" /\ reqs'[p].op = "expiry") => reqs'[p].scan = Expirable
         /\ (Leaves(p, "expire") /\ reqs[p].scan = {}) =>
               /\ txs' = txs /\ balance' = balance
               /\ reqs'[p].resp.code = 200 /\ reqs'[p].resp.txid = 0
      ]_vars

C29_SecondRunFindsNothing ==
    \E p \in slots :
       /\ reqs[p].pc = "done" /\ reqs[p].op = "expiry"
       /\ reqs[p].scan = {} /\ reqs[p].resp.txid = 0
       /\ \E i \in Ids : txs[i].status = "EXPIRED"

\* C30: when the processing of one selected row fails during an expiry run,
\* the other selected rows are EXPIRED once the run has ended.
C30_BadRowSkipped ==
    [][\A p \in slots :
         (Leaves(p, "expire") /\ reqs'[p].resp.code = 500) =>
            \E bad \in reqs[p].scan :
               \A i \in reqs[p].scan \ {bad} : txs'[i].status = "EXPIRED"
      ]_vars


\* C31: the commit step of a transfer is all-or-nothing.  Either the sender
\* is debited by the amount and the two legs of one reference are inserted,
\* or no balance and no row changes; a transfer that fails after its debit
\* leaves the balance of the sender as it was.
C31_TransferAllOrNothing ==
    [][\A p \in slots :
         Leaves(p, "transfer") =>
            LET r == reqs[p]
                n == Len(txs)
                all == /\ balance' = [balance EXCEPT ![r.wallet] = @ - r.amount]
                       /\ Len(txs') = n + 2
                       /\ SubSeq(txs', 1, n) = txs
                       /\ RefOf(txs'[n + 1]) = RefOf(txs'[n + 2])
                       /\ txs'[n + 1].wallet = r.wallet /\ txs'[n + 1].related = r.other
                       /\ txs'[n + 2].wallet = r.other /\ txs'[n + 2].related = r.wallet
                nothing == balance' = balance /\ txs' = txs
            IN /\ all \/ nothing
               /\ reqs'[p].resp.code = 500 /\ Len(txs') = n => nothing
      ]_vars

C31_FailedTransferRolledBack ==
    \E p \in slots :
       /\ reqs[p].pc = "done" /\ reqs[p].op = "transfer"
       /\ reqs[p].resp.code = 500
       /\ reqs[p].loaded >= reqs[p].amount /\ reqs[p].amount > 0
       /\ balance[reqs[p].wallet] = reqs[p].loaded


(***************************************************************************)
(* The transfer legs under accept, reject and the expiry task.  The two     *)
(* legs of a stored transfer are two inserts, each stamped with its own     *)
(* timezone.now(): the recipient's leg is created after the sender's, here  *)
(* by one unit of the clock (the sender's leg one unit before time 0).      *)
(* Requests may overlap.                                                    *)
(***************************************************************************)
StoredLegs(a) ==
    << [StoredTransfer(a)[1] EXCEPT !.created = -TickMinutes],
       [StoredTransfer(a)[2] EXCEPT !.created = 0] >>

LegsInit ==
    /\ slots = ConcProcs
    /\ balance = [w \in Wallets |-> InitBalance[w]]
    /\ txs = StoredLegs(2)
    /\ idem = [k \in Keys |-> NoEntry]
    /\ now = 0
    /\ reqs = [p \in Procs |-> Idle]
    /\ started = 0
    /\ initTotal = SumOver(Wallets, balance) + Held(txs)
    /\ lists = [u \in Wallets |-> NoList]

LegsStep(p) == ProcessAction(p) \/ ExpiryWorker(p) \/ Return(p)

LegsNext == Tick \/ \E p \in Procs : LegsStep(p)

LegsSpec == LegsInit /\ [][LegsNext]_vars

CashDeskStep(p) == Webhook(p) \/ CashOut(p) \/ CashOutVerify(p) \/ Mark(p) \/ Return(p)

CashDeskNext == Tick \/ \E p \in Procs : CashDeskStep(p)

CashDeskSpec == Init /\ [][CashDeskNext]_vars

C34_NoNoticeOnRollback ==
    [][\A p \in slots :
         (Leaves(p, "write") /\ balance' = balance /\ txs' = txs) =>
            reqs'[p].notices = 0
      ]_vars


\* C35: whether or not the notification sink works, the commit step of a
\* deposit answers 200 with its credit and its row committed, the write
\* step of an accept or a reject answers 200 with its status changes
\* committed, and a cash-out request that has inserted its row answers 200.
C35_SinkFailureHarmless ==
    [][\A p \in slots :
         /\ Leaves(p, "deposit") =>
               /\ reqs'[p].resp.code = 200
               /\ Len(txs') = Len(txs) + 1
         /\ Leaves(p, "write") =>
               /\ reqs'[p].resp.code = 200
               /\ txs' # txs
         /\ (reqs[p].pc = "idle" /\ reqs'[p].op = "cashout" /\ txs' # txs) =>
               reqs'[p].resp.code = 200
      ]_vars


\* C36: an expiry run that ends normally leaves EXPIRED every cash-out that
\* was PENDING with its expiry_time in the past, whatever its age.
C36_CashOutExpiredByWorker ==
    [][\A p \in slots :
         (Leaves(p, "expire") /\ reqs'[p].resp.code = 200) =>
            \A i \in Ids :
               (/\ txs[i].status = "PENDING" /\ txs[i].funding = "BLF_ATM"
                /\ txs[i].expiry # NoTime /\ txs[i].expiry < now) =>
                  txs'[i].status = "EXPIRED"
      ]_vars


C38_AmountPositive ==
    [][\A i \in (Len(txs) + 1)..Len(txs') : txs'[i].amount > 0]_vars


\* C39: no state holds a row in status ACCEPTED.
C39_NoAcceptedRow ==
    \A i \in Ids : txs[i].status # "ACCEPTED"

C39_AcceptCommitted ==
    \E p \in slots :
       /\ reqs[p].pc = "done" /\ reqs[p].op = "accept" /\ reqs[p].resp.code = 200
       /\ txs[reqs[p].rtx].status = "COMPLETED" /\ txs[reqs[p].stx].status = "COMPLETED"


(***************************************************************************)
(* The periodic expiry task (CELERY_BEAT_SCHEDULE): a stored PENDING        *)
(* transfer, which its users may accept or reject or leave alone, the       *)
(* clock, and runs of the task that are started again and again, one at a   *)
(* time, in the slot Beat.  Time advances and the task keeps being started (strong *)
(* fairness); a started run ends and its result is collected (weak          *)
(* fairness), as does a request that a user has started.  Nothing obliges   *)
(* a user to start one.                                                     *)
(***************************************************************************)
Beat == 1

WorkerInit ==
    /\ slots = ConcProcs
    /\ balance = [w \in Wallets |-> InitBalance[w]]
    /\ txs = StoredTransfer(2)
    /\ idem = [k \in Keys |-> NoEntry]
    /\ now = 0
    /\ reqs = [p \in Procs |-> Idle]
    /\ started = 0
    /\ initTotal = SumOver(Wallets, balance) + Held(txs)
    /\ lists = [u \in Wallets |-> NoList]

\* A run started by the beat schedule: it is no client request, so it is
\* not counted in started.
PeriodicScan(p) ==
    /\ p = Beat
    /\ reqs[p].pc = "idle"
    /\ reqs' = [reqs EXCEPT ![p] = [Idle EXCEPT !.pc = "expire", !.op = "expiry", !.scan = Expirable]]
    /\ UNCHANGED <<balance, txs, idem, now, started, fixed>>
    /\ Signals

PeriodicApply(p) == \E dbOk \in BOOLEAN : ExpiryApply(p, dbOk)

\* The steps of an accept or reject after its validation.
ActionRuns(p) == ActionLoad(p) \/ \E sent \in 0..NotifyCount : ActionWrite(p, sent)

WorkerStep(p) == PeriodicScan(p) \/ PeriodicApply(p) \/ ProcessAction(p) \/ Return(p)

WorkerNext == Tick \/ \E p \in Procs : WorkerStep(p)

WorkerSpec ==
    /\ WorkerInit /\ [][WorkerNext]_vars
    /\ SF_vars(Tick)
    /\ SF_vars(PeriodicScan(Beat))
    /\ \A p \in Procs : /\ WF_vars(PeriodicApply(p))
                        /\ WF_vars(ActionRuns(p))
                        /\ WF_vars(Return(p))

\* C40: every row that is PENDING reaches a terminal status.
C40_PendingEndsTerminal ==
    \A i \in 1..2 : (i \in Ids /\ txs[i].status = "PENDING") ~> (i \in Ids /\ txs[i].status \in Terminal(txs[i]))

=============================================================================
